---- MODULE Spec2Model ----
(***************************************************************************)
(* A model of the cmd-plants garden generator (flowers.py, garden.py).     *)
(*                                                                         *)
(* A text row is a sequence of one-character strings.  The escape          *)
(* character \x1b is the token "ESC", a line feed is the token "LF", the   *)
(* two blossom glyphs U+273F and U+2740 are the tokens "u273F", "u2740",   *)
(* the grave accent is the token "BACKTICK".                               *)
(* A glyph grid (a plant) is a sequence of rows.                           *)
(***************************************************************************)
EXTENDS Integers, Sequences, FiniteSets, TLC

VARIABLES
    pc,         \* position of the running operation
    args,       \* the parsed command line and the environment of main
    rng,        \* main's master random source
    sub_seeds,  \* the sub-seeds main has drawn, in order
    kinds,      \* the category tag of every plant main has generated
    raw,        \* the grid of every generated plant before colorize_lines
    plants,     \* the plant list (main's list, or the argument of a call)
    call,       \* the arguments of the layout / colorizer call in progress
    out,        \* the list of lines a call returned
    stdout      \* the text written to sys.stdout

vars == <<pc, args, rng, sub_seeds, kinds, raw, plants, call, out, stdout>>

(***************************************************************************)
(* Bounds of the model.                                                    *)
(***************************************************************************)
MaxPlants == 3
MaxHeight == 2
MaxCols == 3
MaxGap == 2
MaxTerm == 6
MaxRowLen == 3
MaxSeed == 1
MaxCount == 2
MaxTrees == 1
MaxBelow == 3
MaxGenSize == 3
MaxGenSeed == 4

\* The column counts tried: render_horizontal coerces values below 1.
ColsTried == (-1)..MaxCols

\* the gap main passes to print_garden (also print_garden's default)
CliGap == 1

(***************************************************************************)
(* Python built-ins used by the code.                                      *)
(***************************************************************************)
Max(S) == CHOOSE x \in S : \A y \in S : y <= x

\* max(iterable, default=d)
MaxOr(S, d) == IF S = {} THEN d ELSE Max(S)

Min(S) == CHOOSE x \in S : \A y \in S : x <= y

Min2(a, b) == IF a <= b THEN a ELSE b

Max2(a, b) == IF a >= b THEN a ELSE b

\* a list comprehension: the list built once, element by element
List(f) == f \o <<>>

\* ch * n : n copies of a one-character string (none when n <= 0)
Repeat(ch, n) == [i \in 1..n |-> ch]

Spaces(n) == Repeat(" ", n)

\* str.rstrip(): the only whitespace a row holds is the space and the line feed
RECURSIVE RStripLen(_, _)
RStripLen(s, n) ==
    IF n = 0 THEN 0
    ELSE IF s[n] \notin {" ", "LF"} THEN n
    ELSE RStripLen(s, n - 1)

rstrip(s) == SubSeq(s, 1, RStripLen(s, Len(s)))

\* sep.join(parts)
RECURSIVE JoinFrom(_, _, _)
JoinFrom(parts, sep, i) ==
    IF i > Len(parts) THEN <<>>
    ELSE IF i = Len(parts) THEN parts[i]
    ELSE parts[i] \o sep \o JoinFrom(parts, sep, i + 1)

Join(parts, sep) == JoinFrom(parts, sep, 1)

\* sum(s)
RECURSIVE SumFrom(_, _)
SumFrom(s, i) == IF i > Len(s) THEN 0 ELSE s[i] + SumFrom(s, i + 1)

SumSeq(s) == SumFrom(s, 1)

\* the concatenation of a sequence of sequences
RECURSIVE ConcatFrom(_, _)
ConcatFrom(ss, i) ==
    IF i > Len(ss) THEN <<>> ELSE ss[i] \o ConcatFrom(ss, i + 1)

Concat(ss) == ConcatFrom(ss, 1)

(***************************************************************************)
(* The ANSI color table and the visible-width utility.                     *)
(***************************************************************************)
ColorNames ==
    {"red", "green", "yellow", "blue", "magenta", "cyan",
     "bright_yellow", "bright_green", "brown"}

ANSI(name) ==
    CASE name = "reset"         -> <<"ESC", "[", "0", "m">>
      [] name = "red"           -> <<"ESC", "[", "3", "1", "m">>
      [] name = "green"         -> <<"ESC", "[", "3", "2", "m">>
      [] name = "yellow"        -> <<"ESC", "[", "3", "3", "m">>
      [] name = "blue"          -> <<"ESC", "[", "3", "4", "m">>
      [] name = "magenta"       -> <<"ESC", "[", "3", "5", "m">>
      [] name = "cyan"          -> <<"ESC", "[", "3", "6", "m">>
      [] name = "bright_yellow" -> <<"ESC", "[", "9", "3", "m">>
      [] name = "bright_green"  -> <<"ESC", "[", "9", "2", "m">>
      [] name = "brown"         ->
            <<"ESC", "[", "3", "8", ";", "5", ";", "9", "4", "m">>
      [] OTHER                  -> <<>>

\* color_wrap with the color code cut short of its closing "m"
color_wrap_unterminated(s, color, enabled) ==
    IF ~enabled THEN s
    ELSE SubSeq(ANSI(color), 1, Len(ANSI(color)) - 1) \o s \o ANSI("reset")

\* f"{ANSI.get(color, '')}{s}{ANSI['reset']}"
color_wrap(s, color, enabled) ==
    IF ~enabled THEN s ELSE ANSI(color) \o s \o ANSI("reset")

ParamChars == {"0", "1", "2", "3", "4", "5", "6", "7", "8", "9", ";"}

\* the first index at or after j whose character is not in [0-9;]
RECURSIVE ParamsEnd(_, _)
ParamsEnd(s, j) ==
    IF j <= Len(s) /\ s[j] \in ParamChars THEN ParamsEnd(s, j + 1) ELSE j

\* The index of the "m" closing a match of \x1b\[[0-9;]*m that starts at i,
\* or 0 when no match starts at i.
MatchEnd(s, i) ==
    IF s[i] = "ESC" /\ i + 1 <= Len(s) /\ s[i + 1] = "["
    THEN LET j == ParamsEnd(s, i + 2)
         IN  IF j <= Len(s) /\ s[j] = "m" THEN j ELSE 0
    ELSE 0

\* re.sub(r"\x1b\[[0-9;]*m", "", s)
RECURSIVE StripFrom(_, _)
StripFrom(s, i) ==
    IF i > Len(s) THEN <<>>
    ELSE LET e == MatchEnd(s, i)
         IN  IF e > 0 THEN StripFrom(s, e + 1)
             ELSE <<s[i]>> \o StripFrom(s, i + 1)

strip_ansi(s) == StripFrom(s, 1)

visible_len(s) == Len(strip_ansi(s))

\* max((_visible_len(ln) for ln in p), default=0)
PlantWidth(p) == MaxOr({visible_len(p[i]) : i \in 1..Len(p)}, 0)

(***************************************************************************)
(* random.Random: a source is its seed, the number of draws made, and a    *)
(* tape holding the values of its first draws; past the tape the values    *)
(* are a fixed function of seed and position.  main's sources have an      *)
(* empty tape; a caller's arbitrary source is given by its tape.           *)
(***************************************************************************)
Random(seed) == [seed |-> seed, pos |-> 0, tape |-> <<>>]

\* the raw value of the next draw
Draw(r) ==
    IF r.pos < Len(r.tape) THEN r.tape[r.pos + 1]
    ELSE ((r.seed + 1) * 7919 + r.pos * 10473 + (r.seed % 8191) * (r.pos % 257) * 31)
         % 65536

Advance(r) == [r EXCEPT !.pos = @ + 1]

\* rng.choice(options): the value (the source then advances by one draw)
choice(r, options) == options[(Draw(r) % Len(options)) + 1]

\* rng.randint(a, b): the value
randint(r, a, b) ==
    IF Draw(r) <= b - a THEN a + Draw(r) ELSE a + (Draw(r) % (b - a + 1))

(***************************************************************************)
(* The colorizer.  A plant category f"flower_{kind}" / f"tree_{kind}" is   *)
(* the record of its two parts.                                            *)
(***************************************************************************)
FlowerKinds == <<"round", "star", "tulip", "sunflower", "cherry">>

TreeKinds == <<"pine", "broad", "bonsai", "cherry", "stylized">>

PlantKind(cat, kind) == [cat |-> cat, kind |-> kind]

PlantKinds ==
    {PlantKind("flower", FlowerKinds[i]) : i \in 1..Len(FlowerKinds)}
    \cup {PlantKind("tree", TreeKinds[i]) : i \in 1..Len(TreeKinds)}

\* plant_kind.startswith("flower_")
IsFlower(plant_kind) == plant_kind.cat = "flower"

\* plant_kind.endswith("cherry") or plant_kind.startswith("flower_cherry")
IsCherry(plant_kind) == plant_kind.kind = "cherry"

\* flowers.py: the list the foliage / petal color is chosen from
FoliageColors(plant_kind) ==
    IF IsCherry(plant_kind) THEN <<"magenta", "bright_yellow">>
    ELSE IF IsFlower(plant_kind) /\ plant_kind.kind = "sunflower"
         THEN <<"yellow", "bright_yellow">>
    ELSE IF IsFlower(plant_kind)
         THEN <<"bright_green", "green", "bright_yellow", "magenta", "red">>
    ELSE <<"green", "bright_green">>

\* flowers.py: green for a flower's stalk, brown for a tree's trunk
TrunkColor(plant_kind) == IF IsFlower(plant_kind) THEN "green" ELSE "brown"

\* RunEnd taking one bar at a time (i += 1 instead of i = j)
RunEndOne(line, i) == i + 1

\* the end (exclusive) of the run of "|" that starts at i
RECURSIVE RunEnd(_, _)
RunEnd(line, j) ==
    IF j <= Len(line) /\ line[j] = "|" THEN RunEnd(line, j + 1) ELSE j

\* flowers.py: the while loop over one line, from index i on
RECURSIVE ColorizeLineFrom(_, _, _, _)
ColorizeLineFrom(line, i, plant_kind, r) ==
    IF i > Len(line) THEN [text |-> <<>>, rng |-> r]
    ELSE IF line[i] = " "
    THEN LET rest == ColorizeLineFrom(line, i + 1, plant_kind, r)
         IN  [text |-> <<" ">> \o rest.text, rng |-> rest.rng]
    ELSE IF line[i] = "|"
    THEN LET j == RunEnd(line, i)
             rest == ColorizeLineFrom(line, j, plant_kind, r)
         IN  [text |-> color_wrap(SubSeq(line, i, j - 1),
                                  TrunkColor(plant_kind), TRUE) \o rest.text,
              rng |-> rest.rng]
    ELSE LET c == choice(r, FoliageColors(plant_kind))
             rest == ColorizeLineFrom(line, i + 1, plant_kind, Advance(r))
         IN  [text |-> color_wrap(<<line[i]>>, c, TRUE) \o rest.text,
              rng |-> rest.rng]

RECURSIVE ColorizeFrom(_, _, _, _)
ColorizeFrom(lines, l, plant_kind, r) ==
    IF l > Len(lines) THEN [lines |-> <<>>, rng |-> r]
    ELSE LET one == ColorizeLineFrom(lines[l], 1, plant_kind, r)
             rest == ColorizeFrom(lines, l + 1, plant_kind, one.rng)
         IN  [lines |-> <<one.text>> \o rest.lines, rng |-> rest.rng]

\* flowers.py colorize_lines: the returned grid, and the source as it leaves it
colorize_lines(lines, plant_kind, enabled, r) ==
    IF ~enabled THEN [lines |-> lines, rng |-> r]
    ELSE ColorizeFrom(lines, 1, plant_kind, r)

\* garden.py: every non-space character is colored on its own
GardenIsBonsai(plant_kind) == plant_kind.kind = "bonsai"

RECURSIVE GardenColorizeLineFrom(_, _, _, _)
GardenColorizeLineFrom(line, i, plant_kind, r) ==
    IF i > Len(line) THEN [text |-> <<>>, rng |-> r]
    ELSE IF line[i] = " "
    THEN LET rest == GardenColorizeLineFrom(line, i + 1, plant_kind, r)
         IN  [text |-> <<" ">> \o rest.text, rng |-> rest.rng]
    ELSE LET drawn == IsCherry(plant_kind) \/ IsFlower(plant_kind)
                        \/ ~GardenIsBonsai(plant_kind)
             c == IF drawn THEN choice(r, FoliageColors(plant_kind))
                  ELSE "bright_green"
             rest == GardenColorizeLineFrom(line, i + 1, plant_kind,
                                            IF drawn THEN Advance(r) ELSE r)
         IN  [text |-> color_wrap(<<line[i]>>, c, TRUE) \o rest.text,
              rng |-> rest.rng]

RECURSIVE GardenColorizeFrom(_, _, _, _)
GardenColorizeFrom(lines, l, plant_kind, r) ==
    IF l > Len(lines) THEN [lines |-> <<>>, rng |-> r]
    ELSE LET one == GardenColorizeLineFrom(lines[l], 1, plant_kind, r)
             rest == GardenColorizeFrom(lines, l + 1, plant_kind, one.rng)
         IN  [lines |-> <<one.text>> \o rest.lines, rng |-> rest.rng]

garden_colorize_lines(lines, plant_kind, enabled, r) ==
    IF ~enabled THEN [lines |-> lines, rng |-> r]
    ELSE GardenColorizeFrom(lines, 1, plant_kind, r)

(***************************************************************************)
(* The shape generators of flowers.py.  Each takes the size and the random *)
(* source and gives the grid and the source as the generator leaves it.    *)
(***************************************************************************)
PETAL_CHARS == <<"*", "o", "@", "O", "0", "+", "x", "X">>

CENTER_CHARS == <<"@", "*", "O", ".">>

STEM_CHAR == "|"

\* the source after n more draws
Skip(r, n) == [r EXCEPT !.pos = @ + n]

\* rng.random() * 0.6 in thousandths, random() taken in hundredths
Noise(r) == 6 * (Draw(r) % 100)

\* d2 <= (radius + 0.25 - noise) ** 2 with dx = x / 2, scaled by 4 * 10^6
InFuzzyCircle(x, y, radius, noise) ==
    1000000 * (x * x + 4 * y * y)
        <= 4 * (1000 * radius + 250 - noise) * (1000 * radius + 250 - noise)

Abs(x) == IF x < 0 THEN -x ELSE x

_make_round_flower(size, r) ==
    LET radius == 1 + size
        petal == choice(r, PETAL_CHARS)
        center == choice(Advance(r), CENTER_CHARS)
        W == 4 * radius + 1
        cell(yi, xi) ==
            LET x == xi - 1 - 2 * radius
                y == yi - 1 - radius
                noise == Noise(Skip(r, 2 + (yi - 1) * W + (xi - 1)))
            IN  IF InFuzzyCircle(x, y, radius, noise)
                THEN (IF Abs(x) <= 1 /\ Abs(y) <= 1 THEN center ELSE petal)
                ELSE " "
        head == [yi \in 1..(2 * radius + 1) |->
                    rstrip([xi \in 1..W |-> cell(yi, xi)])]
        r2 == Skip(r, 2 + (2 * radius + 1) * W)
        stem_height == randint(r2, 1 + size, 2 + 2 * size)
        stem_col == Len(head[1]) \div 2
    IN  [lines |-> head \o [k \in 1..stem_height |->
                               Spaces(stem_col) \o <<STEM_CHAR>>],
         rng |-> Advance(r2)]

_make_star_flower(size, r) ==
    LET petal == choice(r, PETAL_CHARS)
        center == choice(Advance(r), CENTER_CHARS)
        s == size
        head == << Spaces(2 * s) \o <<petal>>,
                   Spaces(s) \o <<petal>> \o Spaces(2 * s - 1) \o <<petal>>,
                   <<petal>> \o Spaces(4 * s - 1) \o <<petal>>,
                   Spaces(s) \o <<petal>> \o Spaces(2 * s - 1) \o <<petal>>,
                   Spaces(2 * s) \o <<center>> >>
        n == 1 + s + randint(Skip(r, 2), 0, s)
    IN  [lines |-> head \o [k \in 1..n |-> Spaces(2 * s) \o <<STEM_CHAR>>],
         rng |-> Skip(r, 3)]

LeafMotifs == << <<"<", ">">>, <<"/", "\\">>, <<"(", ")">>, <<"~", "~">> >>

_make_tulip(size, r) ==
    LET petal == choice(r, PETAL_CHARS)
        center == choice(Advance(r), CENTER_CHARS)
        s == size
        leaves == choice(Skip(r, 2), LeafMotifs)
        head == << Spaces(1 + s) \o <<petal>> \o Spaces(s) \o <<petal>>,
                   Spaces(s) \o <<petal>> \o Spaces(1 + s) \o <<center>>
                       \o Spaces(s) \o <<petal>>,
                   <<petal>> \o Spaces(3 + s) \o <<petal>>,
                   Spaces(1 + s) \o leaves >>
        n == 1 + s + randint(Skip(r, 3), 0, 2)
    IN  [lines |-> head \o [k \in 1..n |-> Spaces(2 + s) \o <<STEM_CHAR>>],
         rng |-> Skip(r, 4)]

_make_sunflower(size, r) ==
    LET petal == choice(r, <<"0", "O", "*", "@">>)
        center == choice(Advance(r), <<"@", "0", "O">>)
        s == size
        head == << Spaces(2 + s) \o Repeat(petal, 3 + s),
                   Spaces(1 + s) \o <<petal>> \o Spaces(1 + s) \o <<center>>
                       \o Spaces(1 + s) \o <<petal>>,
                   <<petal>> \o Spaces(3 + s) \o <<petal>> >>
    IN  [lines |-> head \o [k \in 1..(2 + s) |-> Spaces(2 + s) \o <<STEM_CHAR>>],
         rng |-> Skip(r, 2)]

\* the petal set depends on os.name alone
CherryPetals(os_name) ==
    IF os_name # "nt" THEN <<"o", "u273F", "u2740">> ELSE <<"o", "*">>

_make_cherry_flower(size, r, os_name) ==
    LET petal == choice(r, CherryPetals(os_name))
        center == choice(Advance(r), <<".", "@">>)
        s == size
        head == << Spaces(1 + s) \o <<petal, " ", petal>>,
                   Spaces(s) \o <<petal, center, petal>>,
                   <<petal>> \o Spaces(1 + s) \o <<petal>> >>
    IN  [lines |-> head \o [k \in 1..(1 + s) |-> Spaces(2 + s) \o <<STEM_CHAR>>],
         rng |-> Skip(r, 2)]

WithKind(res, kind) == [lines |-> res.lines, kind |-> kind, rng |-> res.rng]

random_flower(size, r, os_name) ==
    LET kind == choice(r, FlowerKinds)
        r1 == Advance(r)
    IN  IF kind = "round" THEN WithKind(_make_round_flower(size, r1), kind)
        ELSE IF kind = "star" THEN WithKind(_make_star_flower(size, r1), kind)
        ELSE IF kind = "sunflower" THEN WithKind(_make_sunflower(size, r1), kind)
        ELSE IF kind = "cherry"
             THEN WithKind(_make_cherry_flower(size, r1, os_name), kind)
        ELSE WithKind(_make_tulip(size, r1), kind)

_make_pine_tree(size, r) ==
    LET s == Max2(1, size)
        layer(k) == [row \in 1..(1 + 2 * (k + s)) |->
                        Spaces((4 * s + 2) - (row - 1))
                            \o Repeat("^", 1 + 2 * (row - 1))]
        trunk_w == 1 + s
        trunk_pad == (4 * s + 2) - (trunk_w \div 2)
    IN  [lines |-> layer(0) \o layer(1) \o layer(2)
                     \o [k \in 1..(1 + s) |->
                            Spaces(trunk_pad) \o Repeat("|", trunk_w)],
         rng |-> r]

\* dx * dx + y * y <= (radius + 0.2) ** 2 with dx = x / 2.0, scaled by 100
InCanopy(x, y, radius) ==
    25 * (x * x + 4 * y * y) <= 4 * (5 * radius + 1) * (5 * radius + 1)

\* the rasterized canopy rows of _make_broad_tree
BroadCanopy(radius) ==
    [yi \in 1..(2 * radius + 1) |->
        rstrip([xi \in 1..(4 * radius + 1) |->
                  IF InCanopy(xi - 1 - 2 * radius, yi - 1 - radius, radius)
                  THEN "#" ELSE " "])]

_make_broad_tree(size, r) ==
    LET radius == 2 + size
        head == BroadCanopy(radius)
        trunk_w == 1 + size * 2
        trunk_col == Max2(0, (Len(head[1]) \div 2) - (trunk_w \div 2))
    IN  [lines |-> head \o [k \in 1..(1 + size) |->
                               Spaces(trunk_col) \o Repeat("|", trunk_w)],
         rng |-> r]

\* the fixed art of _make_stylized_tree
StylizedArt ==
    <<
       Spaces(11) \o <<"\\", "\\", "/", " ", "|">> \o Spaces(4) \o <<"|", "/">>,
       Spaces(8) \o <<"\\", "\\", "/", " ", "/", " ", "\\", "\\", "|", "|", "/", " ", " ", "/", "_", "/", "_", "_", "_", "/", "_">>,
       Spaces(9) \o <<"\\", "\\", "/">> \o Spaces(3) \o <<"|", "/", " ", "\\", "\\", "/">>,
       Spaces(4) \o <<"_", "\\", "_", "_", "\\", "_", "\\">> \o Spaces(3) \o <<"|", " ", " ", "/", "_", "_", "_", "_", "_", "/", " ", "_">>,
       Spaces(11) \o <<"\\", " ", " ", "|", " ", "/">> \o Spaces(10) \o <<"/">>,
       <<" ", " ", "_", "_", " ", "_", "-", "-", "-", "-", "-", "BACKTICK", " ", " ", "|", "{", ",", "-", "-", "-", "-", "-", "-", "-", "-", "-", "-", "-", "~">>,
       Spaces(12) \o <<"\\", " ", "}", "{">>,
       Spaces(13) \o <<"}", "{", "{">>,
       Spaces(13) \o <<"}", "}", "{">>,
       Spaces(13) \o <<"{", "{", "{", "}">>,
       Spaces(7) \o <<",", " ", "-", "=", "-", "~", "{", " ", ".", "-", "^", "-", " ", "_">>
    >>

StylizedPatterns ==
    << <<"\\", "/">>, <<"\\", "/", " ", "\\", "/">>,
       <<" ", "\\", "/", " ", "\\", "/">> >>

_make_stylized_tree(size, r) ==
    LET s == Max2(1, size)
        canopy_extra_rows == s * 2
        canopy_variation == Max2(1, s)
        extra == [k \in 1..canopy_extra_rows |->
                    LET row == k - 1
                        pat == choice(Skip(r, 2 * row), StylizedPatterns)
                        prefix_spaces ==
                            Max2(0, 6 - row)
                              + randint(Skip(r, 2 * row + 1), 0, canopy_variation)
                    IN  Spaces(prefix_spaces)
                          \o Concat(Repeat(pat, 1 + (row % (1 + canopy_variation))))]
        body == extra \o StylizedArt
        trunk_w == 1 + s * 2
        trunk_h == 2 + s
        final_width == MaxOr({visible_len(body[i]) : i \in 1..Len(body)}, trunk_w)
        trunk_col == Max2(0, (final_width \div 2) - (trunk_w \div 2))
        root == IF s >= 3
                THEN << Spaces(Max2(0, trunk_col - 2)) \o Repeat("~", trunk_w + 4) >>
                ELSE <<>>
    IN  [lines |-> body \o root
                     \o [k \in 1..trunk_h |->
                            Spaces(trunk_col) \o Repeat("|", trunk_w)],
         rng |-> Skip(r, 2 * canopy_extra_rows)]

\* ln.replace("#", glyph) on every line
ReplaceHash(lines, glyph) ==
    [l \in 1..Len(lines) |->
        [i \in 1..Len(lines[l]) |->
            IF lines[l][i] = "#" THEN glyph ELSE lines[l][i]]]

\* the blossom glyph depends on os.name alone
CherryBlossom(os_name) == IF os_name # "nt" THEN "u273F" ELSE "o"

random_tree(size, r, os_name) ==
    LET kind == choice(r, TreeKinds)
        r1 == Advance(r)
    IN  IF kind = "pine" THEN WithKind(_make_pine_tree(size, r1), kind)
        ELSE IF kind = "bonsai"
             THEN WithKind(_make_broad_tree(Max2(1, size - 1), r1), kind)
        ELSE IF kind = "cherry"
             THEN LET canopy == _make_broad_tree(size + 1, r1)
                  IN  [lines |-> ReplaceHash(canopy.lines, CherryBlossom(os_name)),
                       kind |-> kind, rng |-> canopy.rng]
        ELSE IF kind = "stylized"
             THEN WithKind(_make_stylized_tree(size + 1, r1), kind)
        ELSE WithKind(_make_broad_tree(size, r1), kind)

\* garden.py: the pine's trunk is 1 + s // 2 wide
garden_make_pine_tree(size, r) ==
    LET s == Max2(1, size)
        layer(k) == [row \in 1..(1 + 2 * (k + s)) |->
                        Spaces((4 * s + 2) - (row - 1))
                            \o Repeat("^", 1 + 2 * (row - 1))]
        trunk_w == 1 + (s \div 2)
        trunk_pad == (4 * s + 2) - (trunk_w \div 2)
    IN  [lines |-> layer(0) \o layer(1) \o layer(2)
                     \o [k \in 1..(1 + s) |->
                            Spaces(trunk_pad) \o Repeat("|", trunk_w)],
         rng |-> r]

\* garden.py: the broad tree's trunk is one bar at column len(lines[0]) // 2
garden_make_broad_tree(size, r) ==
    LET radius == 2 + size
        head == BroadCanopy(radius)
        trunk_col == Len(head[1]) \div 2
    IN  [lines |-> head \o [k \in 1..(1 + size) |->
                               Spaces(trunk_col) \o <<"|">>],
         rng |-> r]

GardenTreeKinds == <<"pine", "broad", "bonsai", "cherry">>

garden_random_tree(size, r, os_name) ==
    LET kind == choice(r, GardenTreeKinds)
        r1 == Advance(r)
    IN  IF kind = "pine" THEN WithKind(garden_make_pine_tree(size, r1), kind)
        ELSE IF kind = "bonsai"
             THEN WithKind(garden_make_broad_tree(Max2(1, size - 1), r1), kind)
        ELSE IF kind = "cherry"
             THEN LET canopy == garden_make_broad_tree(size + 1, r1)
                  IN  [lines |-> ReplaceHash(canopy.lines, CherryBlossom(os_name)),
                       kind |-> kind, rng |-> canopy.rng]
        ELSE WithKind(garden_make_broad_tree(size, r1), kind)

(***************************************************************************)
(* Exceptions of the generators: the sizes on which a call raises.         *)
(***************************************************************************)
\* rng.randint(a, b) raises ValueError on an empty range
RandintRaises(a, b) == b < a

\* _make_round_flower: randint(1 + size, 2 + 2 * size), then lines[0]
RoundFlowerRaises(size) ==
    RandintRaises(1 + size, 2 + 2 * size) \/ 2 * (1 + size) + 1 < 1

\* _make_star_flower: randint(0, s)
StarFlowerRaises(size) == RandintRaises(0, size)

\* _make_broad_tree: lines[0] raises IndexError when no canopy row was made
BroadTreeRaises(size) == 2 * (2 + size) + 1 < 1

RandomFlowerRaises(size, r) ==
    LET kind == choice(r, FlowerKinds)
    IN  IF kind = "round" THEN RoundFlowerRaises(size)
        ELSE IF kind = "star" THEN StarFlowerRaises(size)
        ELSE FALSE

RandomTreeRaises(size, r, tree_kinds) ==
    LET kind == choice(r, tree_kinds)
    IN  IF kind = "pine" THEN FALSE
        ELSE IF kind = "bonsai" THEN BroadTreeRaises(Max2(1, size - 1))
        ELSE IF kind = "cherry" THEN BroadTreeRaises(size + 1)
        ELSE IF kind = "stylized" THEN FALSE
        ELSE BroadTreeRaises(size)

(***************************************************************************)
(* The layout engine.                                                      *)
(***************************************************************************)
\* plants[row_start : row_start + cols], row_start counted from 0
RowGroup(ps, row_start, cols) ==
    SubSeq(ps, row_start + 1, Min2(row_start + cols, Len(ps)))

\* the top padding of flowers.py without the right padding of the rows
PadPlantRagged(p, max_h) ==
    LET w == PlantWidth(p)
        pad_top == max_h - Len(p)
    IN  List([r \in 1..max_h |->
            IF r <= pad_top THEN Spaces(w) ELSE p[r - pad_top]])

\* flowers.py: blank rows above the plant's rows, every row padded to width
PadPlant(p, max_h) ==
    LET w == PlantWidth(p)
        pad_top == max_h - Len(p)
    IN  List([r \in 1..max_h |->
            IF r <= pad_top THEN Spaces(w)
            ELSE p[r - pad_top] \o Spaces(w - visible_len(p[r - pad_top]))])

\* garden.py: the plant's rows first, blank rows appended after them
GardenPadPlant(p, max_h) ==
    LET w == PlantWidth(p)
    IN  List([r \in 1..max_h |->
            IF r <= Len(p) THEN p[r] \o Spaces(w - visible_len(p[r]))
            ELSE Spaces(w)])

GroupHeight(row) == MaxOr({Len(row[c]) : c \in 1..Len(row)}, 0)

\* a row-group's lines with the empty separator line left out
RenderGroupNoSep(row, gap) ==
    LET max_h == GroupHeight(row)
        padded == List([c \in 1..Len(row) |-> PadPlant(row[c], max_h)])
    IN  [r \in 1..max_h |->
            rstrip(Join([c \in 1..Len(row) |-> padded[c][r]], Spaces(gap)))]

\* the lines one row-group adds to out_lines, separator included
RenderGroup(row, gap) ==
    LET max_h == GroupHeight(row)
        padded == List([c \in 1..Len(row) |-> PadPlant(row[c], max_h)])
    IN  [r \in 1..max_h |->
            rstrip(Join([c \in 1..Len(row) |-> padded[c][r]], Spaces(gap)))]
        \o << <<>> >>

GardenRenderGroup(row, gap) ==
    LET max_h == GroupHeight(row)
        padded == List([c \in 1..Len(row) |-> GardenPadPlant(row[c], max_h)])
    IN  [r \in 1..max_h |->
            rstrip(Join([c \in 1..Len(row) |-> padded[c][r]], Spaces(gap)))]
        \o << <<>> >>

\* if cols < 1: cols = 1
CoerceCols(cols) == IF cols < 1 THEN 1 ELSE cols

RECURSIVE RenderFrom(_, _, _, _)
RenderFrom(ps, row_start, cols, gap) ==
    IF row_start >= Len(ps) THEN <<>>
    ELSE RenderGroup(RowGroup(ps, row_start, cols), gap)
         \o RenderFrom(ps, row_start + cols, cols, gap)

render_horizontal(ps, cols, gap) == RenderFrom(ps, 0, CoerceCols(cols), gap)

RECURSIVE GardenRenderFrom(_, _, _, _)
GardenRenderFrom(ps, row_start, cols, gap) ==
    IF row_start >= Len(ps) THEN <<>>
    ELSE GardenRenderGroup(RowGroup(ps, row_start, cols), gap)
         \o GardenRenderFrom(ps, row_start + cols, cols, gap)

garden_render_horizontal(ps, cols, gap) ==
    GardenRenderFrom(ps, 0, CoerceCols(cols), gap)

\* max(1, (term_w + gap) // (max_w + gap)), max_w over all the plants
AutoFitMaxWidth(ps) == MaxOr({PlantWidth(ps[i]) : i \in 1..Len(ps)}, 1)

AutoFitCols(ps, gap, term_w) ==
    Max2(1, (term_w + gap) \div (AutoFitMaxWidth(ps) + gap))

\* print_garden raises ZeroDivisionError: the // of auto-fit divides by zero
PrintGardenRaises(ps, layout, gap, auto_fit) ==
    layout = "horizontal" /\ auto_fit /\ AutoFitMaxWidth(ps) + gap = 0

\* the vertical branch with the gap lines added after the last plant too
VerticalLinesTrailingGap(ps, gap) ==
    Concat([i \in 1..Len(ps) |-> ps[i] \o Repeat(<<>>, gap)])

\* out_lines of the vertical branch: [""] * gap between plants
VerticalLines(ps, gap) ==
    Concat([i \in 1..Len(ps) |->
              ps[i] \o (IF i # Len(ps) THEN Repeat(<<>>, gap) ELSE <<>>)])

\* "\n".join(lines) + "\n"
WriteLines(lines) == Join(lines, <<"LF">>) \o <<"LF">>

\* the column count print_garden hands to render_horizontal
ColsUsed(ps, cols, gap, auto_fit, term_w) ==
    IF auto_fit THEN AutoFitCols(ps, gap, term_w) ELSE cols

\* flowers.py print_garden: the text it writes to sys.stdout
print_garden(ps, layout, cols, gap, auto_fit, term_w) ==
    IF layout = "horizontal"
    THEN WriteLines(render_horizontal(
             ps, ColsUsed(ps, cols, gap, auto_fit, term_w), gap * 2))
    ELSE WriteLines(VerticalLines(ps, gap))

\* garden.py print_garden
garden_print_garden(ps, layout, cols, gap, auto_fit, term_w) ==
    IF layout = "horizontal"
    THEN WriteLines(garden_render_horizontal(
             ps, ColsUsed(ps, cols, gap, auto_fit, term_w), gap * 2))
    ELSE WriteLines(VerticalLines(ps, gap))

\* The lines of a text that ends with a line feed (str.splitlines()).
RECURSIVE SplitFrom(_, _, _)
SplitFrom(text, i, cur) ==
    IF i > Len(text) THEN (IF cur = <<>> THEN <<>> ELSE <<cur>>)
    ELSE IF text[i] = "LF" THEN <<cur>> \o SplitFrom(text, i + 1, <<>>)
    ELSE SplitFrom(text, i + 1, Append(cur, text[i]))

SplitLines(text) == SplitFrom(text, 1, <<>>)

(***************************************************************************)
(* Plant lists handed to the layout engine: small ragged grids, plain and  *)
(* colorized, of every height up to MaxHeight, the empty grid included.    *)
(***************************************************************************)
\* a plain triangular canopy: row r holds 2r-1 foliage characters
SampleCanopy(h) == [r \in 1..h |-> Spaces(h - r) \o Repeat("#", 2 * r - 1)]

\* a colorized stalk: every row is one green vertical bar after one space
SampleStalk(h) == [r \in 1..h |-> <<" ">> \o color_wrap(<<"|">>, "green", TRUE)]

SamplePlants ==
    {SampleCanopy(h) : h \in 0..MaxHeight} \cup {SampleStalk(h) : h \in 1..MaxHeight}

RECURSIVE SeqsUpTo(_, _)
SeqsUpTo(S, n) ==
    IF n = 0 THEN {<<>>}
    ELSE LET shorter == SeqsUpTo(S, n - 1)
         IN  shorter \cup {Append(q, x) : q \in {t \in shorter : Len(t) = n - 1}, x \in S}

PlantLists == SeqsUpTo(SamplePlants, MaxPlants)

NoArgs == [seed |-> 0, count |-> 0, trees |-> 0, size |-> 1, color |-> "off",
           isatty |-> FALSE, no_unicode |-> FALSE, os_name |-> "posix"]

NoCall == [op |-> "none"]

NoRng == Random(0)

\* Everything of main's state, unused while a library function is called alone.
MainIdle ==
    /\ args = NoArgs
    /\ rng = NoRng
    /\ sub_seeds = <<>>
    /\ kinds = <<>>
    /\ raw = <<>>

(***************************************************************************)
(* SpecLayout: render_horizontal called on an arbitrary plant list.        *)
(***************************************************************************)
InitLayout ==
    /\ pc = "call"
    /\ MainIdle
    /\ plants \in PlantLists
    /\ call = NoCall
    /\ out = <<>>
    /\ stdout = <<>>

CallRenderHorizontal ==
    /\ pc = "call"
    /\ \E cols \in ColsTried, gap \in 0..MaxGap :
         /\ call' = [op |-> "render_horizontal", src |-> "flowers",
                     cols |-> cols, gap |-> gap]
         /\ out' = render_horizontal(plants, cols, gap)
    /\ pc' = "returned"
    /\ UNCHANGED <<args, rng, sub_seeds, kinds, raw, plants, stdout>>

CallGardenRenderHorizontal ==
    /\ pc = "call"
    /\ \E cols \in ColsTried, gap \in 0..MaxGap :
         /\ call' = [op |-> "render_horizontal", src |-> "garden",
                     cols |-> cols, gap |-> gap]
         /\ out' = garden_render_horizontal(plants, cols, gap)
    /\ pc' = "returned"
    /\ UNCHANGED <<args, rng, sub_seeds, kinds, raw, plants, stdout>>

NextLayout == CallRenderHorizontal \/ CallGardenRenderHorizontal

SpecLayout == InitLayout /\ [][NextLayout]_vars

(***************************************************************************)
(* SpecGarden: print_garden called on an arbitrary plant list.             *)
(***************************************************************************)
\* the arguments print_garden reads on each of its three paths
GardenCalls ==
    {[op |-> "print_garden", layout |-> "vertical", cols |-> 3,
      gap |-> g, auto_fit |-> FALSE, term_w |-> 0] : g \in 0..MaxGap}
    \cup
    {[op |-> "print_garden", layout |-> "horizontal", cols |-> c,
      gap |-> g, auto_fit |-> FALSE, term_w |-> 0] :
        c \in ColsTried, g \in 0..MaxGap}
    \cup
    {[op |-> "print_garden", layout |-> "horizontal", cols |-> 3,
      gap |-> g, auto_fit |-> TRUE, term_w |-> t] :
        g \in 0..MaxGap, t \in 0..MaxTerm}

InitGarden == InitLayout

CallPrintGarden ==
    /\ pc = "call"
    /\ \E c \in GardenCalls :
         IF PrintGardenRaises(plants, c.layout, c.gap, c.auto_fit)
         THEN /\ call' = c
              /\ pc' = "flowers_raised"
              /\ UNCHANGED stdout
         ELSE /\ call' = [c EXCEPT !.cols =
                            ColsUsed(plants, c.cols, c.gap, c.auto_fit, c.term_w)]
              /\ stdout' = print_garden(plants, c.layout, c.cols, c.gap,
                                        c.auto_fit, c.term_w)
              /\ pc' = "flowers_returned"
    /\ UNCHANGED <<args, rng, sub_seeds, kinds, raw, plants, out>>

CallGardenPrintGarden ==
    /\ pc = "call"
    /\ \E c \in GardenCalls :
         IF PrintGardenRaises(plants, c.layout, c.gap, c.auto_fit)
         THEN /\ call' = c
              /\ pc' = "garden_raised"
              /\ UNCHANGED stdout
         ELSE /\ call' = [c EXCEPT !.cols =
                            ColsUsed(plants, c.cols, c.gap, c.auto_fit, c.term_w)]
              /\ stdout' = garden_print_garden(plants, c.layout, c.cols, c.gap,
                                               c.auto_fit, c.term_w)
              /\ pc' = "garden_returned"
    /\ UNCHANGED <<args, rng, sub_seeds, kinds, raw, plants, out>>

NextGarden == CallPrintGarden \/ CallGardenPrintGarden

SpecGarden == InitGarden /\ [][NextGarden]_vars

(***************************************************************************)
(* SpecColor: colorize_lines called on an arbitrary small grid, for every  *)
(* plant category and every outcome of the random draws.                   *)
(***************************************************************************)
\* the characters of a row: space, vertical bar, a foliage / petal glyph
RowChars == {" ", "|", "#"}

RECURSIVE RowsOfLen(_)
RowsOfLen(n) ==
    IF n = 0 THEN {<<>>}
    ELSE {Append(q, ch) : q \in RowsOfLen(n - 1), ch \in RowChars}

ColorRows == UNION {RowsOfLen(n) : n \in 0..MaxRowLen}

\* a stalk / trunk row, as every shape generator appends below its shape
StalkRow == <<" ", "|">>

ColorGrids == {<<>>} \cup {<<row>> : row \in ColorRows}
                \cup {<<row, StalkRow>> : row \in ColorRows}

\* the number of characters of a grid that satisfy Drawing
DrawCount(lines, Drawing(_)) ==
    SumSeq([l \in 1..Len(lines) |->
              Cardinality({i \in 1..Len(lines[l]) : Drawing(lines[l][i])})])

RECURSIVE TapesOfLen(_, _)
TapesOfLen(n, k) ==
    IF n = 0 THEN {<<>>}
    ELSE {Append(t, v) : t \in TapesOfLen(n - 1, k), v \in 0..(k - 1)}

IsFoliage(ch) == ch \notin {" ", "|"}

IsGlyph(ch) == ch # " "

InitColor ==
    /\ pc = "call"
    /\ args = NoArgs
    /\ rng = NoRng
    /\ sub_seeds = <<>>
    /\ kinds \in {<<k>> : k \in PlantKinds}
    /\ raw \in {<<g>> : g \in ColorGrids}
    /\ plants = <<>>
    /\ call = NoCall
    /\ out = <<>>
    /\ stdout = <<>>

CallColorizeLines ==
    /\ pc = "call"
    /\ \E enabled \in BOOLEAN :
       \E tape \in TapesOfLen(IF enabled THEN DrawCount(raw[1], IsFoliage) ELSE 0,
                              Len(FoliageColors(kinds[1]))) :
         LET r == [Random(0) EXCEPT !.tape = tape]
             res == colorize_lines(raw[1], kinds[1], enabled, r)
         IN  /\ call' = [op |-> "colorize_lines", src |-> "flowers",
                         enabled |-> enabled, rng |-> r]
             /\ out' = res.lines
             /\ rng' = res.rng
    /\ pc' = "returned"
    /\ UNCHANGED <<args, sub_seeds, kinds, raw, plants, stdout>>

CallGardenColorizeLines ==
    /\ pc = "call"
    /\ \E enabled \in BOOLEAN :
       \E tape \in TapesOfLen(IF enabled THEN DrawCount(raw[1], IsGlyph) ELSE 0,
                              Len(FoliageColors(kinds[1]))) :
         LET r == [Random(0) EXCEPT !.tape = tape]
             res == garden_colorize_lines(raw[1], kinds[1], enabled, r)
         IN  /\ call' = [op |-> "colorize_lines", src |-> "garden",
                         enabled |-> enabled, rng |-> r]
             /\ out' = res.lines
             /\ rng' = res.rng
    /\ pc' = "returned"
    /\ UNCHANGED <<args, sub_seeds, kinds, raw, plants, stdout>>

NextColor == CallColorizeLines \/ CallGardenColorizeLines

SpecColor == InitColor /\ [][NextColor]_vars

(***************************************************************************)
(* Spec: main of flowers.py, one step per plant, then print_garden.        *)
(***************************************************************************)
\* --size has choices=[1, 2, 3]
Sizes == {1, 2, 3}

\* the options and the environment the generation loops read
ArgSet ==
    [seed : 0..MaxSeed, count : 0..MaxCount, trees : 0..MaxTrees, size : Sizes,
     color : {"on", "off"}, isatty : {TRUE}, no_unicode : BOOLEAN,
     os_name : {"posix", "nt"}]
    \cup
    [seed : 0..MaxSeed, count : 0..MaxCount, trees : 0..MaxTrees, size : Sizes,
     color : {"auto"}, isatty : BOOLEAN, no_unicode : BOOLEAN,
     os_name : {"posix", "nt"}]

\* the options and the environment only print_garden reads:
\* --layout, --cols, --auto-fit and the terminal width (fallback 80)
LayoutArgs ==
    {[layout |-> "vertical", cols |-> 3, auto_fit |-> FALSE, term_w |-> 80]}
    \cup {[layout |-> "horizontal", cols |-> c, auto_fit |-> FALSE, term_w |-> 80] :
            c \in {0, 2}}
    \cup {[layout |-> "horizontal", cols |-> 3, auto_fit |-> TRUE, term_w |-> t] :
            t \in {11, 80}}

use_color(a) ==
    IF a.color = "on" THEN TRUE
    ELSE IF a.color = "off" THEN FALSE
    ELSE a.isatty

\* One pass of a generation loop with the sub-source handed to the shape
\* generator replaced by the master source itself.
MakePlantSharedRng(cat, a, master) ==
    LET sub_seed == randint(master, 0, 2147483647)
        made == IF cat = "flower"
                THEN random_flower(a.size, Advance(master), a.os_name)
                ELSE random_tree(a.size, Advance(master), a.os_name)
        colored == colorize_lines(made.lines, PlantKind(cat, made.kind),
                                  use_color(a), Random(sub_seed))
    IN  [sub_seed |-> sub_seed, lines |-> made.lines, kind |-> made.kind,
         colored |-> colored.lines, master |-> made.rng]

\* One pass of a generation loop of main: draw the sub-seed from the master
\* source, seed the plant's own source with it, generate, colorize.
MakePlant(cat, a, master) ==
    LET sub_seed == randint(master, 0, 2147483647)
        sub_rng == Random(sub_seed)
        made == IF cat = "flower"
                THEN random_flower(a.size, sub_rng, a.os_name)
                ELSE random_tree(a.size, sub_rng, a.os_name)
        colored == colorize_lines(made.lines, PlantKind(cat, made.kind),
                                  use_color(a), made.rng)
    IN  [sub_seed |-> sub_seed, lines |-> made.lines, kind |-> made.kind,
         colored |-> colored.lines, master |-> Advance(master)]

Init ==
    /\ pc = "main"
    /\ args \in ArgSet
    /\ rng = Random(args.seed)
    /\ sub_seeds = <<>>
    /\ kinds = <<>>
    /\ raw = <<>>
    /\ plants = <<>>
    /\ call = NoCall
    /\ out = <<>>
    /\ stdout = <<>>

Generate(cat) ==
    LET m == MakePlant(cat, args, rng)
    IN  /\ rng' = m.master
        /\ sub_seeds' = Append(sub_seeds, m.sub_seed)
        /\ kinds' = Append(kinds, PlantKind(cat, m.kind))
        /\ raw' = Append(raw, m.lines)
        /\ plants' = Append(plants, m.colored)
        /\ UNCHANGED <<pc, args, call, out, stdout>>

\* for _ in range(args.count)
GenFlower ==
    /\ pc = "main"
    /\ Len(plants) < args.count
    /\ Generate("flower")

\* for _ in range(args.trees)
GenTree ==
    /\ pc = "main"
    /\ Len(plants) >= args.count
    /\ Len(plants) < args.count + args.trees
    /\ Generate("tree")

\* print_garden(plants, layout, cols=max(1, args.cols), gap=1, auto_fit);
\* with gap = 1 the divisor of auto-fit is at least 1: the call returns
PrintGarden ==
    /\ pc = "main"
    /\ Len(plants) >= args.count + args.trees
    /\ \E la \in LayoutArgs :
         LET cols == Max2(1, la.cols)
         IN  /\ call' = [op |-> "print_garden", layout |-> la.layout,
                         cols |-> ColsUsed(plants, cols, CliGap, la.auto_fit, la.term_w),
                         gap |-> CliGap, auto_fit |-> la.auto_fit,
                         term_w |-> la.term_w]
             /\ stdout' = print_garden(plants, la.layout, cols, CliGap,
                                       la.auto_fit, la.term_w)
    /\ pc' = "flowers_returned"
    /\ UNCHANGED <<args, rng, sub_seeds, kinds, raw, plants, out>>

Next == GenFlower \/ GenTree \/ PrintGarden

Spec == Init /\ [][Next]_vars

(***************************************************************************)
(* SpecGen: one shape generator called with one random source on           *)
(* consecutive sizes, from a first size (possibly below 1) upwards; the    *)
(* k-th grid of plants is the grid of size call.first + k - 1.  A call     *)
(* that raises ends the sequence.                                          *)
(***************************************************************************)
FlowerGenerators ==
    {"_make_round_flower", "_make_star_flower", "_make_tulip",
     "_make_sunflower", "_make_cherry_flower", "random_flower"}

TreeGenerators ==
    {"_make_pine_tree", "_make_broad_tree", "_make_stylized_tree", "random_tree"}

GardenTreeGenerators ==
    {"garden._make_pine_tree", "garden._make_broad_tree", "garden.random_tree"}

Generators == FlowerGenerators \cup TreeGenerators \cup GardenTreeGenerators

GenSizes == (-MaxBelow)..MaxGenSize

GenCalls ==
    [op : {"generate"}, fn : Generators, first : GenSizes,
     seed : 0..MaxGenSeed, os_name : {"posix", "nt"}]

\* whether the call fn(size, rng) raises
GenRaises(fn, size, r) ==
    CASE fn = "_make_round_flower" -> RoundFlowerRaises(size)
      [] fn = "_make_star_flower" -> StarFlowerRaises(size)
      [] fn = "random_flower" -> RandomFlowerRaises(size, r)
      [] fn \in {"_make_broad_tree", "garden._make_broad_tree"} ->
            BroadTreeRaises(size)
      [] fn = "random_tree" -> RandomTreeRaises(size, r, TreeKinds)
      [] fn = "garden.random_tree" -> RandomTreeRaises(size, r, GardenTreeKinds)
      [] OTHER -> FALSE

\* what the call fn(size, rng) returns: the grid and the plant's kind
GenResult(fn, size, r, os_name) ==
    CASE fn = "_make_round_flower" -> WithKind(_make_round_flower(size, r), "round")
      [] fn = "_make_star_flower" -> WithKind(_make_star_flower(size, r), "star")
      [] fn = "_make_tulip" -> WithKind(_make_tulip(size, r), "tulip")
      [] fn = "_make_sunflower" -> WithKind(_make_sunflower(size, r), "sunflower")
      [] fn = "_make_cherry_flower" ->
            WithKind(_make_cherry_flower(size, r, os_name), "cherry")
      [] fn = "random_flower" -> random_flower(size, r, os_name)
      [] fn = "_make_pine_tree" -> WithKind(_make_pine_tree(size, r), "pine")
      [] fn = "_make_broad_tree" -> WithKind(_make_broad_tree(size, r), "broad")
      [] fn = "_make_stylized_tree" ->
            WithKind(_make_stylized_tree(size, r), "stylized")
      [] fn = "random_tree" -> random_tree(size, r, os_name)
      [] fn = "garden._make_pine_tree" ->
            WithKind(garden_make_pine_tree(size, r), "pine")
      [] fn = "garden._make_broad_tree" ->
            WithKind(garden_make_broad_tree(size, r), "broad")
      [] OTHER -> garden_random_tree(size, r, os_name)

GenCategory(fn) == IF fn \in FlowerGenerators THEN "flower" ELSE "tree"

InitGen ==
    /\ pc = "gen"
    /\ args = NoArgs
    /\ rng = NoRng
    /\ sub_seeds = <<>>
    /\ kinds = <<>>
    /\ raw = <<>>
    /\ plants = <<>>
    /\ call \in GenCalls
    /\ out = <<>>
    /\ stdout = <<>>

\* the size the next call of the sequence is made with
NextGenSize == call.first + Len(plants)

\* one call of the generator fn
GenCall(fn) ==
    /\ pc = "gen"
    /\ call.fn = fn
    /\ NextGenSize <= MaxGenSize
    /\ IF GenRaises(fn, NextGenSize, Random(call.seed))
       THEN /\ pc' = "gen_raised"
            /\ UNCHANGED <<kinds, plants>>
       ELSE LET res == GenResult(fn, NextGenSize, Random(call.seed), call.os_name)
            IN  /\ plants' = Append(plants, List(res.lines))
                /\ kinds' = Append(kinds, PlantKind(GenCategory(fn), res.kind))
                /\ UNCHANGED pc
    /\ UNCHANGED <<args, rng, sub_seeds, raw, call, out, stdout>>

CallMakeRoundFlower == GenCall("_make_round_flower")

CallMakeStarFlower == GenCall("_make_star_flower")

CallMakeTulip == GenCall("_make_tulip")

CallMakeSunflower == GenCall("_make_sunflower")

CallMakeCherryFlower == GenCall("_make_cherry_flower")

CallRandomFlower == GenCall("random_flower")

CallMakePineTree == GenCall("_make_pine_tree")

CallMakeBroadTree == GenCall("_make_broad_tree")

CallMakeStylizedTree == GenCall("_make_stylized_tree")

CallRandomTree == GenCall("random_tree")

CallGardenMakePineTree == GenCall("garden._make_pine_tree")

CallGardenMakeBroadTree == GenCall("garden._make_broad_tree")

CallGardenRandomTree == GenCall("garden.random_tree")

NextGen ==
    \/ CallMakeRoundFlower \/ CallMakeStarFlower \/ CallMakeTulip
    \/ CallMakeSunflower \/ CallMakeCherryFlower \/ CallRandomFlower
    \/ CallMakePineTree \/ CallMakeBroadTree \/ CallMakeStylizedTree
    \/ CallRandomTree
    \/ CallGardenMakePineTree \/ CallGardenMakeBroadTree \/ CallGardenRandomTree

SpecGen == InitGen /\ [][NextGen]_vars

(***************************************************************************)
(* What the layout claims speak of, computed from the plant list alone.    *)
(***************************************************************************)
\* number of row-groups of n plants in c columns
NumGroups(n, c) == (n + c - 1) \div c

\* the plants (indices) of row-group g
GroupIdx(n, c, g) == ((g - 1) * c + 1)..Min2(g * c, n)

\* rowHeight of row-group g
RowHeight(ps, c, g) == MaxOr({Len(ps[i]) : i \in GroupIdx(Len(ps), c, g)}, 0)

\* number of output lines before row-group g
GroupStart(ps, c, g) == SumSeq([k \in 1..(g - 1) |-> RowHeight(ps, c, k) + 1])

\* visible width of a plant: its widest row
WidthOf(p) == MaxOr({Len(strip_ansi(p[r])) : r \in 1..Len(p)}, 0)

\* visible column at which plant i of row-group g starts
ColOffset(ps, c, g, i, gap) ==
    LET first == (g - 1) * c + 1
    IN  SumSeq([k \in 1..(i - first) |-> WidthOf(ps[first + k - 1]) + gap])

\* the w visible characters of a line from column off on, blank past its end
Band(line, off, w) ==
    LET t == strip_ansi(line)
    IN  [i \in 1..w |-> IF off + i <= Len(t) THEN t[off + i] ELSE " "]

\* C1: in every row-group of render_horizontal's output (flowers.py and
\* garden.py), each plant's rows fill the last lines of the group: a plant
\* of height h < rowHeight has rowHeight - h blank rows above its own rows
\* and none below, so its last row is on the group's last line.
C1_BottomAligned ==
    (pc = "returned" /\ call.op = "render_horizontal") =>
        LET c == Max2(1, call.cols)
            n == Len(plants)
        IN  \A g \in 1..NumGroups(n, c) : \A i \in GroupIdx(n, c, g) :
              LET H == RowHeight(plants, c, g)
                  h == Len(plants[i])
                  gs == GroupStart(plants, c, g)
                  w == WidthOf(plants[i])
                  off == ColOffset(plants, c, g, i, call.gap)
              IN  /\ gs + H <= Len(out)
                  /\ \A r \in 1..(H - h) :
                        Band(out[gs + r], off, w) = Spaces(w)
                  /\ \A r \in 1..h :
                        Band(out[gs + (H - h) + r], off, w)
                            = Band(plants[i][r], 0, w)

\* C2: render_horizontal (flowers.py) splits the plants, in order, into
\* consecutive groups of max(cols, 1); each group gives rowHeight lines and
\* then one empty line, so the output has the sum of (rowHeight + 1) lines;
\* no plants give no lines; a single-plant group gives that plant's rows,
\* with no gap added.
C2_GroupsAndLineCount ==
    (pc = "returned" /\ call.op = "render_horizontal" /\ call.src = "flowers") =>
        LET c == Max2(1, call.cols)
            n == Len(plants)
            G == NumGroups(n, c)
        IN  /\ Len(out) = SumSeq([g \in 1..G |-> RowHeight(plants, c, g) + 1])
            /\ (n = 0 => out = <<>>)
            /\ \A g \in 1..G :
                 LET H == RowHeight(plants, c, g)
                     gs == GroupStart(plants, c, g)
                     idx == GroupIdx(n, c, g)
                     k == Cardinality(idx)
                 IN  /\ (g < G => k = c)
                     /\ k >= 1
                     /\ out[gs + H + 1] = <<>>
                     /\ \A r \in 1..H :
                          Len(strip_ansi(out[gs + r])) <=
                            SumSeq([j \in 1..k |->
                                      WidthOf(plants[(g - 1) * c + j])])
                            + (k - 1) * Max2(0, call.gap)
                     /\ (k = 1 =>
                           \A r \in 1..H :
                             out[gs + r] = rstrip(plants[(g - 1) * c + 1][r]))

\* C2 witness: three plants in two columns, the last group a single plant
C2_Witness ==
    /\ pc = "returned" /\ call.op = "render_horizontal" /\ call.src = "flowers"
    /\ call.cols = 2 /\ call.gap = 2
    /\ Len(plants) = 3
    /\ Len(plants[1]) = 1 /\ Len(plants[2]) = 2 /\ Len(plants[3]) = 2
    /\ Len(out) = 6
    /\ out[4] = plants[3][1]

\* the lines print_garden wrote
Printed == SplitLines(stdout)

IsPrinted == pc \in {"flowers_returned", "garden_returned"}

\* C3: in vertical layout print_garden writes every plant's rows unchanged
\* and in order, exactly gap empty lines between consecutive plants, and
\* nothing after the last plant's rows.
C3_VerticalLayout ==
    (IsPrinted /\ call.layout = "vertical") =>
        LET n == Len(plants)
            start == [i \in 1..n |->
                        SumSeq([k \in 1..(i - 1) |-> Len(plants[k]) + call.gap])]
            total == SumSeq([k \in 1..n |-> Len(plants[k])]) + call.gap * (n - 1)
        IN  (n >= 1 /\ total >= 1) =>
              /\ Len(Printed) = total
              /\ \A i \in 1..n :
                   /\ \A r \in 1..Len(plants[i]) :
                        Printed[start[i] + r] = plants[i][r]
                   /\ i < n =>
                        \A j \in 1..call.gap :
                          Printed[start[i] + Len(plants[i]) + j] = <<>>

\* C3 witness: two non-empty plants printed vertically with the CLI's gap
C3_Witness ==
    /\ IsPrinted /\ call.layout = "vertical" /\ call.gap = 1
    /\ Len(plants) = 2 /\ Len(plants[1]) = 2 /\ Len(plants[2]) = 1
    /\ Len(Printed) = 4
    /\ Printed[3] = <<>>
    /\ Printed[4] = plants[2][1]

\* the maximum visible width over all plants being laid out
MaxPlantWidth == MaxOr({WidthOf(plants[i]) : i \in 1..Len(plants)}, 0)

\* number of lines a horizontal layout in c columns has
TotalLines(ps, c) ==
    SumSeq([g \in 1..NumGroups(Len(ps), c) |-> RowHeight(ps, c, g) + 1])

\* C4: with auto-fit the column count used is
\* max(1, floor((terminalWidth + gap) / (maxPlantWidth + gap))), with
\* maxPlantWidth taken once over all plants; it is at least 1 for every
\* terminal width and plant list, and the divisor is not zero (the call
\* never raises ZeroDivisionError).
C4_AutoFitCols ==
    (call.op = "print_garden" /\ call.layout = "horizontal" /\ call.auto_fit) =>
        /\ pc \notin {"flowers_raised", "garden_raised"}
        /\ IsPrinted =>
             /\ call.cols >= 1
             /\ plants # <<>> =>
                  /\ call.cols =
                       Max2(1, (call.term_w + call.gap)
                                 \div (MaxPlantWidth + call.gap))
                  /\ Len(Printed) = TotalLines(plants, call.cols)

\* C5: with auto-fit, when the terminal is at least as wide as the widest
\* plant, every line print_garden writes has visible length <= terminalWidth.
C5_RowsFitTerminal ==
    (IsPrinted /\ call.layout = "horizontal" /\ call.auto_fit
       /\ call.term_w >= MaxPlantWidth) =>
        \A l \in 1..Len(Printed) : visible_len(Printed[l]) <= call.term_w

(***************************************************************************)
(* What the colorizer claims speak of: the annotations of a colored row.   *)
(***************************************************************************)
IsColorized == pc = "returned" /\ call.op = "colorize_lines"

\* index of the first "ESC" of s at or after i (Len(s) + 1 when there is none)
NextEsc(s, i) ==
    LET at == {j \in i..Len(s) : s[j] = "ESC"}
    IN  IF at = {} THEN Len(s) + 1 ELSE Min(at)

\* A colored row as its annotations in order: [code, text] for a color code,
\* the text it covers and the reset closing it; [code |-> <<>>] for a
\* character outside every annotation.
RECURSIVE SegmentsFrom(_, _)
SegmentsFrom(s, i) ==
    IF i > Len(s) THEN <<>>
    ELSE LET e == MatchEnd(s, i)
             n == NextEsc(s, e + 1)
         IN  IF e > 0 /\ SubSeq(s, n, n + 3) = ANSI("reset")
             THEN <<[code |-> SubSeq(s, i, e), text |-> SubSeq(s, e + 1, n - 1)]>>
                  \o SegmentsFrom(s, n + 4)
             ELSE <<[code |-> <<>>, text |-> <<s[i]>>]>> \o SegmentsFrom(s, i + 1)

Segments(s) == SegmentsFrom(s, 1)

HasBar(seg) == \E i \in 1..Len(seg.text) : seg.text[i] = "|"

\* the lengths of the maximal runs of "|" of a row, left to right
RECURSIVE RunsFrom(_, _)
RunsFrom(row, i) ==
    IF i > Len(row) THEN <<>>
    ELSE IF row[i] # "|" THEN RunsFrom(row, i + 1)
    ELSE LET after == {j \in i..Len(row) : row[j] # "|"}
             j == IF after = {} THEN Len(row) + 1 ELSE Min(after)
         IN  <<j - i>> \o RunsFrom(row, j)

\* C6: colorize_lines keeps the grid's structure: disabled it returns the
\* grid unchanged; enabled, the result has as many rows and every row with
\* its color annotations removed is the original row, so no visible length
\* changes (flowers.py and garden.py, every category, every draw).
C6_StructurePreserving ==
    IsColorized =>
        /\ ~call.enabled => out = raw[1]
        /\ call.enabled =>
             /\ Len(out) = Len(raw[1])
             /\ \A l \in 1..Len(out) :
                  /\ strip_ansi(out[l]) = raw[1][l]
                  /\ visible_len(out[l]) = Len(raw[1][l])

\* C6 witness: a two-row grid with petals and a stalk, colorized
C6_Witness ==
    /\ IsColorized /\ call.enabled
    /\ raw[1] = << <<"#", " ", "#">>, <<" ", "|">> >>
    /\ Len(out) = 2
    /\ Len(out[1]) > 3
    /\ Len(out[2]) > 2

\* C7: with color enabled (flowers.py) every maximal run of vertical bars is
\* wrapped as one unit in one annotation of a fixed color: green for every
\* flower category, brown for every tree category, whatever the draws.
C7_TrunkRunsFixedColor ==
    (IsColorized /\ call.src = "flowers" /\ call.enabled) =>
        \A l \in 1..Len(raw[1]) :
            LET bars == SelectSeq(Segments(out[l]), HasBar)
                runs == RunsFrom(raw[1][l], 1)
                fixed == IF kinds[1].cat = "flower" THEN "green" ELSE "brown"
            IN  /\ Len(bars) = Len(runs)
                /\ \A k \in 1..Len(runs) :
                     bars[k] = [code |-> ANSI(fixed), text |-> Repeat("|", runs[k])]

\* C7 witness: a tree row with foliage and a two-bar trunk run, wrapped brown
C7_Witness ==
    /\ IsColorized /\ call.src = "flowers" /\ call.enabled
    /\ kinds[1].cat = "tree"
    /\ raw[1] = << <<"#", "|", "|">> >>
    /\ SubSeq(out[1], Len(out[1]) - 15, Len(out[1]))
         = ANSI("brown") \o <<"|", "|">> \o ANSI("reset")

\* the colors the rule table allows for a category's foliage / petals
AllowedFoliage(plant_kind) ==
    IF plant_kind.kind = "cherry" THEN {"magenta", "bright_yellow"}
    ELSE IF plant_kind = PlantKind("flower", "sunflower")
         THEN {"yellow", "bright_yellow"}
    ELSE IF plant_kind.cat = "flower"
         THEN {"bright_green", "green", "bright_yellow", "magenta", "red"}
    ELSE IF plant_kind = PlantKind("tree", "bonsai") THEN {"bright_green"}
    ELSE {"green", "bright_green"}

\* C8: with color enabled every non-space character outside a stem / trunk
\* run gets a color of the set the rule table allows for the category
\* (exactly bright_green for tree bonsai), each character in an annotation
\* of its own.
C8_FoliageColorSets ==
    (IsColorized /\ call.enabled) =>
        \A l \in 1..Len(out) :
            LET segs == Segments(out[l])
            IN  \A k \in 1..Len(segs) :
                  (segs[k].text # <<" ">> /\ ~HasBar(segs[k])) =>
                      /\ Len(segs[k].text) = 1
                      /\ segs[k].code \in
                           {ANSI(c) : c \in AllowedFoliage(kinds[1])}

\* the master source of a run after n sub-seed draws
MasterAfter(n) == Skip(Random(args.seed), n)

\* C9: in main the master random source has advanced exactly once per
\* generated plant, whatever the generators and the colorizer drew, and the
\* sub-seed of the k-th plant is the k-th draw of the master source: a value
\* fixed by the master seed and k alone (not by size, color setting or the
\* other plants), so equal seeds give equal sub-seed sequences.
C9_SubSeedSequence ==
    /\ Len(sub_seeds) = Len(plants)
    /\ rng = MasterAfter(Len(plants))
    /\ \A k \in 1..Len(sub_seeds) :
          sub_seeds[k] = randint(MasterAfter(k - 1), 0, 2147483647)

\* C9 witness: a finished run of two or more colorized plants whose
\* generators and colorizer drew from their own sources
C9_Witness ==
    /\ pc = "flowers_returned"
    /\ Len(plants) >= 2
    /\ use_color(args)
    /\ sub_seeds[1] # sub_seeds[2]

\* the glyphs outside ASCII the generators can place
NonAscii == {"u273F", "u2740"}

\* C10: when --no-unicode is given, a run that generated a cherry-kind plant
\* writes no character outside ASCII, on every platform.
C10_NoUnicodeIsAscii ==
    (/\ pc = "flowers_returned"
     /\ args.no_unicode
     /\ \E k \in 1..Len(kinds) : IsCherry(kinds[k]))
        => \A i \in 1..Len(stdout) : stdout[i] \notin NonAscii

(***************************************************************************)
(* What the generator claims speak of.                                     *)
(***************************************************************************)
IsGenerated == call.op = "generate"

\* the size the k-th grid of the sequence was generated with
SizeOf(k) == call.first + k - 1

\* the index of the grid generated with size
IndexOf(size) == size - call.first + 1

\* rows and widest row of a grid
Dims(p) == <<Len(p), PlantWidth(p)>>

\* C11: a generator called with a size below 1 does not raise and returns a
\* grid with at least one row and one column, of the dimensions it returns
\* for size 1 (same generator, same random source).
C11_SizeClamped ==
    IsGenerated =>
        /\ pc = "gen_raised" => NextGenSize >= 1
        /\ \A k \in 1..Len(plants) :
              SizeOf(k) < 1 =>
                /\ Len(plants[k]) >= 1
                /\ PlantWidth(plants[k]) >= 1
                /\ IndexOf(1) <= Len(plants) =>
                      Dims(plants[k]) = Dims(plants[IndexOf(1)])

\* the number of vertical bars of a row
Bars(row) == Cardinality({i \in 1..Len(row) : row[i] = "|"})

\* a trunk row: vertical bars after leading spaces and nothing else
IsTrunkRow(row) == Bars(row) >= 1 /\ \A i \in 1..Len(row) : row[i] \in {" ", "|"}

\* the widths of the trunk rows of a grid
TrunkWidths(p) == {Bars(p[l]) : l \in {j \in 1..Len(p) : IsTrunkRow(p[j])}}

\* C12: for sizes 1..3, every stalk row of a flower holds exactly one stalk
\* character; every trunk row of a tree is more than one character wide, and
\* the trunk of the same tree kind is strictly wider at the next size.
C12_StalkAndTrunkWidths ==
    IsGenerated =>
        \A k \in 1..Len(plants) :
            SizeOf(k) \in 1..3 =>
                IF kinds[k].cat = "flower"
                THEN TrunkWidths(plants[k]) = {1}
                ELSE /\ TrunkWidths(plants[k]) # {}
                     /\ \A w \in TrunkWidths(plants[k]) : w > 1
                     /\ (k > 1 /\ SizeOf(k - 1) >= 1) =>
                           \A w \in TrunkWidths(plants[k]),
                              v \in TrunkWidths(plants[k - 1]) : v < w

\* the rows of a grid that are trunk rows
TrunkRows(p) == {l \in 1..Len(p) : IsTrunkRow(p[l])}

\* the radius a broad tree's canopy was rasterized with: 2 * radius + 1 rows
CanopyRadius(p) == (Len(p) - Cardinality(TrunkRows(p)) - 1) \div 2

\* first and last column (counted from 0) of the bars of a trunk row
FirstBar(row) == Min({i \in 1..Len(row) : row[i] = "|"}) - 1

LastBar(row) == Max({i \in 1..Len(row) : row[i] = "|"}) - 1

\* C13: in a broad tree (broad, bonsai, cherry tree) of size >= 1 the middle
\* of every trunk row is the canopy's center column 2 * radius, to within
\* the one column an even trunk width forces.
C13_TrunkCentered ==
    IsGenerated =>
        \A k \in 1..Len(plants) :
            (SizeOf(k) >= 1 /\ kinds[k].cat = "tree"
               /\ kinds[k].kind \in {"broad", "bonsai", "cherry"}) =>
                \A l \in TrunkRows(plants[k]) :
                    LET twice_mid == FirstBar(plants[k][l]) + LastBar(plants[k][l])
                        center == 2 * CanopyRadius(plants[k])
                    IN  /\ twice_mid - 2 * center <= 1
                        /\ 2 * center - twice_mid <= 1

\* C14: in render_horizontal's output (flowers.py and garden.py) the plant at
\* position c of a row-group fills, on every line of the group, the band of
\* its own width w_c that starts at the visible offset sum over k < c of
\* (w_k + gap): its rows padded to w_c (never by a negative amount) or
\* blanks, with gap blank columns before the next plant's band.
C14_ColumnBands ==
    (pc = "returned" /\ call.op = "render_horizontal") =>
        LET c == Max2(1, call.cols)
            n == Len(plants)
        IN  \A g \in 1..NumGroups(n, c) : \A i \in GroupIdx(n, c, g) :
              LET H == RowHeight(plants, c, g)
                  h == Len(plants[i])
                  gs == GroupStart(plants, c, g)
                  w == WidthOf(plants[i])
                  off == ColOffset(plants, c, g, i, call.gap)
                  above == IF call.src = "flowers" THEN H - h ELSE 0
              IN  /\ \A r \in 1..h : w - visible_len(plants[i][r]) >= 0
                  /\ \A r \in 1..H :
                        /\ Band(out[gs + r], off, w) =
                             (IF r > above /\ r <= above + h
                              THEN Band(plants[i][r - above], 0, w)
                              ELSE Spaces(w))
                        /\ i + 1 \in GroupIdx(n, c, g) =>
                             Band(out[gs + r], off + w, call.gap)
                               = Spaces(call.gap)

\* C14 witness: a canopy whose first row is narrower than its width, and a
\* colorized stalk to its right in the same row-group
C14_Witness ==
    /\ pc = "returned" /\ call.op = "render_horizontal"
    /\ call.cols = 2 /\ call.gap = 1
    /\ plants = <<SampleCanopy(2), SampleStalk(2)>>
    /\ strip_ansi(out[1]) = <<" ", "#", " ", " ", " ", "|">>
    /\ Band(out[1], 4, 2) = <<" ", "|">>

====
